---- MODULE Spec2Model ----
(***************************************************************************)
(* Committed CCS instances (CCCS), linearized committed CCS instances      *)
(* (LCCCS), their construction from an assignment, their relation checks   *)
(* and the folding of a running LCCCS with a fresh CCCS (src/lcccs.rs).    *)
(*                                                                         *)
(* Field elements of Fr are modelled as residues modulo the prime P; the   *)
(* commitment group G1 has the same prime order as Fr and is modelled as   *)
(* the additive group of residues modulo P.                                *)
(***************************************************************************)
EXTENDS Integers, Sequences, FiniteSets, TLC

\* ------------------------------------------------------------------------
\* Field arithmetic (ark_bls12_381::Fr, scaled down to a small prime)
\* ------------------------------------------------------------------------
P == 3

Fr == 0..(P - 1)

add(a, b) == (a + b) % P

mul(a, b) == (a * b) % P

neg(a) == (P - a) % P

\* number of folding rounds the driver performs
MaxFolds == 1

Min(a, b) == IF a <= b THEN a ELSE b

RECURSIVE SumSeq(_)
SumSeq(q) == IF q = <<>> THEN 0 ELSE add(Head(q), SumSeq(Tail(q)))

RECURSIVE ProdSeq(_)
ProdSeq(q) == IF q = <<>> THEN 1 ELSE mul(Head(q), ProdSeq(Tail(q)))

RECURSIVE Pow2(_)
Pow2(k) == IF k = 0 THEN 1 ELSE 2 * Pow2(k - 1)

\* ------------------------------------------------------------------------
\* CCS shapes (crate::ccs, external to lcccs.rs)
\* ------------------------------------------------------------------------
\* z = [1, x, w0]:  x * x = w0,  (1 + x) * x = x + w0
ShapeSq ==
    [n |-> 3, l |-> 1, s |-> 1, t |-> 3,
     M |-> << << <<0, 1, 0>>, <<1, 1, 0>> >>,
              << <<0, 1, 0>>, <<0, 1, 0>> >>,
              << <<0, 0, 1>>, <<0, 1, 1>> >> >>,
     S |-> << <<1, 2>>, <<3>> >>,
     c |-> << 1, P - 1 >>]

\* z = [1, w0, w1], no public input:  1 + w0 = w1,  w0 + w1 = 1 + 2 w0
ShapeLin ==
    [n |-> 3, l |-> 0, s |-> 1, t |-> 2,
     M |-> << << <<1, 1, 0>>, <<0, 1, 1>> >>,
              << <<0, 0, 1>>, <<1, 2, 0>> >> >>,
     S |-> << <<1>>, <<2>> >>,
     c |-> << 1, P - 1 >>]

\* get_test_z(i): a satisfying assignment of the shape for input i
get_test_z(shape, i) ==
    IF shape = ShapeSq
    THEN <<1, i, mul(i, i)>>
    ELSE <<1, i, add(1, i)>>

\* the k-th point of {0,1}^s, k in 0 .. 2^s - 1
Bits(k, s) == [i \in 1..s |-> (k \div Pow2(i - 1)) % 2]

\* BooleanHypercube::new(s): every point of {0,1}^s
BooleanHypercube(s) == { Bits(k, s) : k \in 0..(Pow2(s) - 1) }

\* M z, one entry per row of M
mat_vec_mul(M, z) ==
    [i \in 1..Len(M) |-> SumSeq([k \in 1..Len(z) |-> mul(M[i][k], z[k])])]

\* eq(y, r) = prod_i (y_i r_i + (1 - y_i)(1 - r_i))
eq(y, r) ==
    ProdSeq([i \in 1..Len(r) |->
        add(mul(y[i], r[i]), mul(add(1, neg(y[i])), add(1, neg(r[i]))))])

\* sum_{y in {0,1}^s} M(r, y) * z(y): the multilinear extension of M z at r
sum_Mz_eval(M, z, r) ==
    LET Mz == mat_vec_mul(M, z)
    IN  SumSeq([k \in 1..Len(Mz) |-> mul(Mz[k], eq(Bits(k - 1, Len(r)), r))])

\* CCS::compute_all_sum_Mz_evals: one evaluation per matrix
compute_all_sum_Mz_evals(shape, z, r) ==
    [j \in 1..shape.t |-> sum_Mz_eval(shape.M[j], z, r)]

\* CCS::compute_q(z) evaluated at the point y:
\* q(y) = sum_i c_i * prod_{j in S_i} (sum_{y'} M_j(y, y') z(y'))
compute_q(shape, z, y) ==
    SumSeq([i \in 1..Len(shape.S) |->
        mul(shape.c[i],
            ProdSeq([k \in 1..Len(shape.S[i]) |->
                sum_Mz_eval(shape.M[shape.S[i][k]], z, y)]))])

\* CCS::check_relation(z): q vanishes on the hypercube
ccs_check_relation(shape, z) ==
    \A y \in BooleanHypercube(shape.s) : compute_q(shape, z, y) = 0

\* CCS::compute_sigmas_and_thetas(z1, z2, r_x_prime)
compute_sigmas_and_thetas(shape, z1, z2, r_x_prime) ==
    [sigmas |-> compute_all_sum_Mz_evals(shape, z1, r_x_prime),
     thetas |-> compute_all_sum_Mz_evals(shape, z2, r_x_prime)]

\* ------------------------------------------------------------------------
\* Pedersen commitments (crate::pedersen, external to lcccs.rs)
\* ------------------------------------------------------------------------
\* Pedersen::commit(params, v, r) = r * h + sum_i v_i * g_i
commit(params, v, r) ==
    add(mul(r, params.h),
        SumSeq([i \in 1..Len(v) |-> mul(v[i], params.generators[i])]))

\* Pedersen::new_params(rng, max): max generators and h, none the identity
new_params(max) ==
    { [generators |-> g, h |-> h] : g \in [1..max -> 1..(P - 1)], h \in 1..(P - 1) }

\* ------------------------------------------------------------------------
\* src/lcccs.rs
\* ------------------------------------------------------------------------
None == [tag |-> "None"]

\* z[from ..]  (0-based, as the Rust slice)
SliceFrom(z, from) == [i \in 1..(Len(z) - from) |-> z[from + i]]

\* z[from .. to]  (0-based, end exclusive)
Slice(z, from, to) == [i \in 1..(to - from) |-> z[from + i]]

\* a.iter().zip(b.iter().map(|b_i| b_i * rho)).map(|(a_i, b_i)| a_i + b_i)
zip_add_mul_pad(a, b, rho) ==
    [i \in 1..Len(a) |-> add(a[i], IF i <= Len(b) THEN mul(b[i], rho) ELSE 0)]

zip_add_mul(a, b, rho) ==
    [i \in 1..Min(Len(a), Len(b)) |-> add(a[i], mul(b[i], rho))]

compute_v_j(shape, z, r) == compute_all_sum_Mz_evals(shape, z, r)

to_lcccs_short_x(self, r_w, r_x, params, z) ==
    LET w == SliceFrom(z, 1 + self.l)
        C == commit(params, w, r_w)
        v == compute_v_j(self, z, r_x)
    IN  [inst |-> [tag |-> "LCCCS", ccs |-> self, C |-> C, u |-> 1,
                   x |-> Slice(z, 1, self.l), r_x |-> r_x, v |-> v],
         wit |-> [w |-> w, r_w |-> r_w]]

to_lcccs(self, r_w, r_x, params, z) ==
    LET w == SliceFrom(z, 1 + self.l)
        C == commit(params, w, r_w)
        v == compute_v_j(self, z, r_x)
    IN  [inst |-> [tag |-> "LCCCS", ccs |-> self, C |-> C, u |-> 1,
                   x |-> Slice(z, 1, 1 + self.l), r_x |-> r_x, v |-> v],
         wit |-> [w |-> w, r_w |-> r_w]]

to_cccs_x_from_0(self, r_w, params, z) ==
    LET w == SliceFrom(z, 1 + self.l)
        C == commit(params, w, r_w)
    IN  [inst |-> [tag |-> "CCCS", ccs |-> self, C |-> C,
                   x |-> Slice(z, 0, self.l)],
         wit |-> [w |-> w, r_w |-> r_w]]

to_cccs(self, r_w, params, z) ==
    LET w == SliceFrom(z, 1 + self.l)
        C == commit(params, w, r_w)
    IN  [inst |-> [tag |-> "CCCS", ccs |-> self, C |-> C,
                   x |-> Slice(z, 1, 1 + self.l)],
         wit |-> [w |-> w, r_w |-> r_w]]

CCCS_check_relation_q_first(self, params, w) ==
    LET z == <<1>> \o self.x \o w.w
    IN  IF \E y \in BooleanHypercube(self.ccs.s) : compute_q(self.ccs, z, y) # 0
        THEN "NotSatisfied"
        ELSE IF self.C # commit(params, w.w, w.r_w)
             THEN "PanicCommitment"
             ELSE "Ok"

CCCS_check_relation(self, params, w) ==
    IF self.C # commit(params, w.w, w.r_w)
    THEN "PanicCommitment"
    ELSE LET z == <<1>> \o self.x \o w.w
         IN  IF \E y \in BooleanHypercube(self.ccs.s) : compute_q(self.ccs, z, y) # 0
             THEN "NotSatisfied"
             ELSE "Ok"

LCCCS_check_relation_const_1(self, params, w) ==
    IF self.C # commit(params, w.w, w.r_w)
    THEN "PanicCommitment"
    ELSE LET z == <<1>> \o self.x \o w.w
             computed_v == compute_all_sum_Mz_evals(self.ccs, z, self.r_x)
         IN  IF computed_v # self.v THEN "PanicV" ELSE "Ok"

LCCCS_check_relation_err(self, params, w) ==
    IF self.C # commit(params, w.w, w.r_w)
    THEN "PanicCommitment"
    ELSE LET z == <<self.u>> \o self.x \o w.w
             computed_v == compute_all_sum_Mz_evals(self.ccs, z, self.r_x)
         IN  IF computed_v # self.v THEN "NotSatisfied" ELSE "Ok"

LCCCS_check_relation(self, params, w) ==
    IF self.C # commit(params, w.w, w.r_w)
    THEN "PanicCommitment"
    ELSE LET z == <<self.u>> \o self.x \o w.w
             computed_v == compute_all_sum_Mz_evals(self.ccs, z, self.r_x)
         IN  IF computed_v # self.v THEN "PanicV" ELSE "Ok"

fold_C_without_rho(lcccs1, cccs2, sigmas, thetas, r_x_prime, rho) ==
    [tag |-> "LCCCS",
     ccs |-> lcccs1.ccs,
     C   |-> add(lcccs1.C, cccs2.C),
     u   |-> add(lcccs1.u, rho),
     x   |-> zip_add_mul(lcccs1.x, cccs2.x, rho),
     r_x |-> r_x_prime,
     v   |-> zip_add_mul(sigmas, thetas, rho)]

fold_keeps_r_x(lcccs1, cccs2, sigmas, thetas, r_x_prime, rho) ==
    [tag |-> "LCCCS",
     ccs |-> lcccs1.ccs,
     C   |-> add(lcccs1.C, mul(cccs2.C, rho)),
     u   |-> add(lcccs1.u, rho),
     x   |-> zip_add_mul(lcccs1.x, cccs2.x, rho),
     r_x |-> lcccs1.r_x,
     v   |-> zip_add_mul(sigmas, thetas, rho)]

fold_u_times_rho(lcccs1, cccs2, sigmas, thetas, r_x_prime, rho) ==
    [tag |-> "LCCCS",
     ccs |-> lcccs1.ccs,
     C   |-> add(lcccs1.C, mul(cccs2.C, rho)),
     u   |-> mul(lcccs1.u, rho),
     x   |-> zip_add_mul(lcccs1.x, cccs2.x, rho),
     r_x |-> r_x_prime,
     v   |-> zip_add_mul(sigmas, thetas, rho)]

fold(lcccs1, cccs2, sigmas, thetas, r_x_prime, rho) ==
    [tag |-> "LCCCS",
     ccs |-> lcccs1.ccs,
     C   |-> add(lcccs1.C, mul(cccs2.C, rho)),
     u   |-> add(lcccs1.u, rho),
     x   |-> zip_add_mul(lcccs1.x, cccs2.x, rho),
     r_x |-> r_x_prime,
     v   |-> zip_add_mul(sigmas, thetas, rho)]

fold_witness(wa, wb, rho) ==
    [w   |-> zip_add_mul(wa.w, wb.w, rho),
     r_w |-> add(wa.r_w, mul(rho, wb.r_w))]

\* ------------------------------------------------------------------------
\* State: the values held by a driver that builds, checks and folds
\* instances as test_lcccs_fold does, iterated over several rounds
\* ------------------------------------------------------------------------
VARIABLES
    ccs,              \* the CCS shape shared by every instance
    pedersen_params,  \* the commitment parameters
    lcccs, w1,        \* the running instance and its witness
    cccs, w2,         \* the fresh instance and its witness
    folded, w_folded, \* results of fold and of fold_witness
    last,             \* the check_relation call just made and its outcome
    pc,               \* "running", or "aborted" after a failed assert_eq!
    z1, z2,           \* history: the assignments given to to_lcccs / to_cccs
    folds, rhoSum,    \* history: folds behind lcccs, and the sum of their rho
    foldIn,           \* history: the arguments of the fold call just made
    pre,              \* history: what held of the inputs when fold was called
    rhoW,             \* history: the rho given to fold_witness
    tampered          \* history: which witness had a coordinate overwritten

vars == <<ccs, pedersen_params, lcccs, w1, cccs, w2, folded, w_folded, last,
          pc, z1, z2, folds, rhoSum, foldIn, pre, rhoW, tampered>>

NoCall == [on |-> "none", res |-> "none"]

Shapes == {ShapeSq, ShapeLin}

BumpLast(z) == [z EXCEPT ![Len(z)] = add(z[Len(z)], 1)]

\* the assignments handed to the constructions: the satisfying get_test_z(i),
\* get_test_z(i) with its last witness coordinate raised by one (not
\* satisfying), and one assignment whose first entry is not the constant 1
Assignments(shape) ==
    { get_test_z(shape, i) : i \in Fr }
        \cup { BumpLast(get_test_z(shape, 2)) }
        \cup { [get_test_z(shape, 1) EXCEPT ![1] = 2] }

Points(s) == [1..s -> Fr]

\* the parameters the driver sets up for a shape
Setups(shape) ==
    { pp \in new_params(shape.n - shape.l - 1) :
        /\ pp.h = 2
        /\ \A i \in DOMAIN pp.generators : pp.generators[i] = 1 + ((i - 1) % (P - 1)) }

Init ==
    /\ ccs \in Shapes
    /\ pedersen_params \in Setups(ccs)
    /\ lcccs = None /\ w1 = None
    /\ cccs = None /\ w2 = None
    /\ folded = None /\ w_folded = None
    /\ last = NoCall
    /\ pc = "running"
    /\ z1 = <<>> /\ z2 = <<>>
    /\ folds = 0 /\ rhoSum = 0
    /\ foldIn = None /\ pre = None /\ rhoW = None
    /\ tampered = "none"

\* a failed assert_eq! ends the process
Outcome(res) == IF res \in {"PanicCommitment", "PanicV"} THEN "aborted" ELSE "running"

\* let (lcccs, w1) = ccs.to_lcccs(&mut rng, &pedersen_params, &z)
ToLcccs ==
    /\ pc = "running" /\ lcccs = None /\ folded = None
    /\ \E z \in Assignments(ccs), r_w \in Fr, r_x \in Points(ccs.s) :
          LET r == to_lcccs(ccs, r_w, r_x, pedersen_params, z)
          IN  /\ lcccs' = r.inst
              /\ w1' = r.wit
              /\ z1' = z
    /\ last' = NoCall
    /\ UNCHANGED <<ccs, pedersen_params, cccs, w2, folded, w_folded, pc, z2,
                   folds, rhoSum, foldIn, pre, rhoW, tampered>>

\* let (cccs, w2) = ccs.to_cccs(&mut rng, &pedersen_params, &z)
ToCccs ==
    /\ pc = "running" /\ lcccs # None /\ cccs = None /\ folded = None
    /\ \E z \in Assignments(ccs), r_w \in Fr :
          LET r == to_cccs(ccs, r_w, pedersen_params, z)
          IN  /\ cccs' = r.inst
              /\ w2' = r.wit
              /\ z2' = z
    /\ last' = NoCall
    /\ UNCHANGED <<ccs, pedersen_params, lcccs, w1, folded, w_folded, pc, z1,
                   folds, rhoSum, foldIn, pre, rhoW, tampered>>

\* lcccs.check_relation(&pedersen_params, &w1).unwrap()
CheckLcccs ==
    /\ pc = "running" /\ lcccs # None /\ w1 # None /\ folded = None
    /\ LET res == LCCCS_check_relation(lcccs, pedersen_params, w1)
       IN  /\ last' = [on |-> "lcccs", res |-> res]
           /\ pc' = Outcome(res)
    /\ UNCHANGED <<ccs, pedersen_params, lcccs, w1, cccs, w2, folded, w_folded,
                   z1, z2, folds, rhoSum, foldIn, pre, rhoW, tampered>>

\* cccs.check_relation(&pedersen_params, &w2)
CheckCccs ==
    /\ pc = "running" /\ cccs # None /\ w2 # None /\ folded = None
    /\ LET res == CCCS_check_relation(cccs, pedersen_params, w2)
       IN  /\ last' = [on |-> "cccs", res |-> res]
           /\ pc' = Outcome(res)
    /\ UNCHANGED <<ccs, pedersen_params, lcccs, w1, cccs, w2, folded, w_folded,
                   z1, z2, folds, rhoSum, foldIn, pre, rhoW, tampered>>

\* the full assignments behind the two instances
FullL(inst, wit) == <<inst.u>> \o inst.x \o wit.w

FullC(inst, wit) == <<1>> \o inst.x \o wit.w

\* the first k entries of v (all of v when it is shorter)
Prefix(v, k) == SubSeq(v, 1, Min(k, Len(v)))

\* LCCCS::fold(&lcccs, &cccs, &sigmas, &thetas, r_x_prime, rho)
FoldWith(sigmas, thetas, r_x_prime, rho) ==
    /\ folded' = fold(lcccs, cccs, sigmas, thetas, r_x_prime, rho)
    /\ foldIn' = [sigmas |-> sigmas, thetas |-> thetas,
                  r_x_prime |-> r_x_prime, rho |-> rho]
    /\ pre' = [rho |-> rho,
               ok1 |-> LCCCS_check_relation(lcccs, pedersen_params, w1) = "Ok",
               ok2 |-> CCCS_check_relation(cccs, pedersen_params, w2) = "Ok",
               correct |-> [sigmas |-> Prefix(sigmas, ccs.t),
                            thetas |-> Prefix(thetas, ccs.t)] =
                    compute_sigmas_and_thetas(ccs, FullL(lcccs, w1),
                                              FullC(cccs, w2), r_x_prime),
               lens |-> <<Len(sigmas), Len(thetas)>>]
    /\ last' = NoCall
    /\ UNCHANGED <<ccs, pedersen_params, lcccs, w1, cccs, w2, w_folded, pc,
                   z1, z2, folds, rhoSum, rhoW, tampered>>

\* let (sigmas, thetas) = ccs.compute_sigmas_and_thetas(&z1, &z2, &r_x_prime);
\* let folded = LCCCS::fold(&lcccs, &cccs, &sigmas, &thetas, r_x_prime, rho)
Fold ==
    /\ pc = "running" /\ lcccs # None /\ cccs # None /\ folded = None
    /\ \E r_x_prime \in Points(ccs.s), rho \in Fr :
          LET st == compute_sigmas_and_thetas(ccs, FullL(lcccs, w1),
                                              FullC(cccs, w2), r_x_prime)
          IN  FoldWith(st.sigmas, st.thetas, r_x_prime, rho)

\* let w_folded = LCCCS::fold_witness(w1, w2, rho): the witnesses are moved
\* into the call, and the driver goes on with the folded pair only
FoldWitness ==
    /\ pc = "running" /\ folded # None /\ w_folded = None
    /\ \E rho \in Fr :
          /\ w_folded' = fold_witness(w1, w2, rho)
          /\ rhoW' = rho
    /\ w1' = None /\ w2' = None
    /\ lcccs' = None /\ cccs' = None
    /\ z1' = <<>> /\ z2' = <<>>
    /\ foldIn' = None
    /\ last' = NoCall
    /\ UNCHANGED <<ccs, pedersen_params, folded, pc, folds, rhoSum, pre, tampered>>

\* folded.check_relation(&pedersen_params, &w_folded).unwrap()
CheckFolded ==
    /\ pc = "running" /\ folded # None /\ w_folded # None
    /\ LET res == LCCCS_check_relation(folded, pedersen_params, w_folded)
       IN  /\ last' = [on |-> "folded", res |-> res]
           /\ pc' = Outcome(res)
    /\ UNCHANGED <<ccs, pedersen_params, lcccs, w1, cccs, w2, folded, w_folded,
                   z1, z2, folds, rhoSum, foldIn, pre, rhoW, tampered>>

\* the checked folded pair becomes the running pair of the next round
NextRound ==
    /\ pc = "running" /\ folds < MaxFolds
    /\ last = [on |-> "folded", res |-> "Ok"]
    /\ lcccs' = folded /\ w1' = w_folded
    /\ folded' = None /\ w_folded' = None
    /\ folds' = folds + 1
    /\ rhoSum' = add(rhoSum, pre.rho)
    /\ pre' = None /\ rhoW' = None
    /\ last' = NoCall
    /\ UNCHANGED <<ccs, pedersen_params, cccs, w2, pc, z1, z2, foldIn, tampered>>

Next ==
    \/ ToLcccs
    \/ ToCccs
    \/ CheckLcccs
    \/ CheckCccs
    \/ Fold
    \/ FoldWitness
    \/ CheckFolded
    \/ NextRound

Spec == Init /\ [][Next]_vars

\* ------------------------------------------------------------------------
\* A driver that overwrites one coordinate of a returned witness before
\* checking it
\* ------------------------------------------------------------------------
\* w1.w[i] = val, with val different from the value it replaces
TamperW1 ==
    /\ pc = "running" /\ tampered = "none" /\ w1 # None
    /\ \E i \in 1..Len(w1.w), val \in Fr :
          /\ val # w1.w[i]
          /\ w1' = [w1 EXCEPT !.w[i] = val]
    /\ tampered' = "w1"
    /\ last' = NoCall
    /\ UNCHANGED <<ccs, pedersen_params, lcccs, cccs, w2, folded, w_folded, pc,
                   z1, z2, folds, rhoSum, foldIn, pre, rhoW>>

\* w2.w[i] = val, with val different from the value it replaces
TamperW2 ==
    /\ pc = "running" /\ tampered = "none" /\ w2 # None
    /\ \E i \in 1..Len(w2.w), val \in Fr :
          /\ val # w2.w[i]
          /\ w2' = [w2 EXCEPT !.w[i] = val]
    /\ tampered' = "w2"
    /\ last' = NoCall
    /\ UNCHANGED <<ccs, pedersen_params, lcccs, w1, cccs, folded, w_folded, pc,
                   z1, z2, folds, rhoSum, foldIn, pre, rhoW>>

NextTamper ==
    \/ ToLcccs
    \/ ToCccs
    \/ TamperW1
    \/ TamperW2
    \/ CheckLcccs
    \/ CheckCccs

SpecTamper == Init /\ [][NextTamper]_vars

\* ------------------------------------------------------------------------
\* A driver that hands fold evaluation vectors it did not compute with
\* compute_sigmas_and_thetas
\* ------------------------------------------------------------------------
\* v itself, v with one more entry, v without its last entry, and v with a
\* wrong first entry
Variants(v) ==
    { v, Append(v, 1), SubSeq(v, 1, Len(v) - 1), [v EXCEPT ![1] = add(v[1], 1)] }

\* LCCCS::fold(&lcccs, &cccs, &sigmas, &thetas, r_x_prime, rho), where at
\* most one of sigmas and thetas is not the computed vector
FoldUnchecked ==
    /\ pc = "running" /\ lcccs # None /\ cccs # None /\ folded = None
    /\ \E r_x_prime \in Points(ccs.s), rho \in Fr :
          LET st == compute_sigmas_and_thetas(ccs, FullL(lcccs, w1),
                                              FullC(cccs, w2), r_x_prime)
          IN  \E sigmas \in Variants(st.sigmas), thetas \in Variants(st.thetas) :
                 /\ sigmas = st.sigmas \/ thetas = st.thetas
                 /\ FoldWith(sigmas, thetas, r_x_prime, rho)

NextUnchecked ==
    \/ ToLcccs
    \/ ToCccs
    \/ FoldUnchecked
    \/ FoldWitness
    \/ CheckFolded

SpecUnchecked == Init /\ [][NextUnchecked]_vars

\* ------------------------------------------------------------------------
\* Properties
\* ------------------------------------------------------------------------
Binding(inst, wit) == inst.C = commit(pedersen_params, wit.w, wit.r_w)

\* C1: folding a running pair that passes LCCCS::check_relation (fresh or
\* itself folded) with a fresh pair that passes CCCS::check_relation, with
\* sigmas/thetas computed for their assignments at r_x_prime and the same rho
\* in fold and fold_witness, gives a pair that passes LCCCS::check_relation.
C1_FoldingCorrect ==
    (/\ folded # None /\ w_folded # None
     /\ pre.ok1 /\ pre.ok2 /\ pre.correct
     /\ rhoW = pre.rho)
    => /\ LCCCS_check_relation(folded, pedersen_params, w_folded) = "Ok"
       /\ last.on = "folded" => last.res = "Ok" /\ pc = "running"

C1_Witness ==
    /\ last = [on |-> "folded", res |-> "Ok"]
    /\ folds >= 1 /\ rhoSum # 0
    /\ pre.ok1 /\ pre.ok2 /\ pre.correct
    /\ rhoW = pre.rho /\ pre.rho = 2

\* C2: when the length preconditions hold, fold returns C' = C1 + rho C2,
\* u' = u1 + rho, x'[i] = x1[i] + rho x2[i], v'[j] = sigmas[j] + rho thetas[j]
\* and r_x' = r_x_prime, the old r_x contributing nothing.
C2_FoldFormulas ==
    (/\ foldIn # None
     /\ Len(lcccs.x) = ccs.l /\ Len(cccs.x) = ccs.l
     /\ Len(foldIn.sigmas) = ccs.t /\ Len(foldIn.thetas) = ccs.t
     /\ Len(foldIn.r_x_prime) = ccs.s)
    => LET rho == foldIn.rho
       IN  /\ folded.C = (lcccs.C + rho * cccs.C) % P
           /\ folded.C = (commit(pedersen_params, w1.w, w1.r_w)
                            + rho * commit(pedersen_params, w2.w, w2.r_w)) % P
           /\ folded.u = (lcccs.u + rho) % P
           /\ Len(folded.x) = ccs.l
           /\ \A i \in 1..ccs.l : folded.x[i] = (lcccs.x[i] + rho * cccs.x[i]) % P
           /\ Len(folded.v) = ccs.t
           /\ \A j \in 1..ccs.t :
                 folded.v[j] = (foldIn.sigmas[j] + rho * foldIn.thetas[j]) % P
           /\ folded.r_x = foldIn.r_x_prime

C2_Witness ==
    /\ foldIn # None /\ foldIn.rho = 2
    /\ ccs.l > 0 /\ cccs.x[1] # 0 /\ cccs.C # 0
    /\ lcccs.u # 1
    /\ lcccs.r_x # foldIn.r_x_prime

\* C3: for an assignment z with z[0] = 1 that satisfies the shape, the pair
\* returned by to_lcccs passes LCCCS::check_relation and the pair returned by
\* to_cccs passes CCCS::check_relation.
C3_RoundTrip ==
    /\ (/\ lcccs # None /\ w1 # None /\ folds = 0
        /\ z1[1] = 1 /\ ccs_check_relation(ccs, z1))
       => /\ LCCCS_check_relation(lcccs, pedersen_params, w1) = "Ok"
          /\ last.on = "lcccs" => last.res = "Ok"
    /\ (/\ cccs # None /\ w2 # None
        /\ z2[1] = 1 /\ ccs_check_relation(ccs, z2))
       => /\ CCCS_check_relation(cccs, pedersen_params, w2) = "Ok"
          /\ last.on = "cccs" => last.res = "Ok"

C3_Witness ==
    /\ last = [on |-> "cccs", res |-> "Ok"]
    /\ folds = 0 /\ lcccs # None /\ w1 # None
    /\ z1[1] = 1 /\ ccs_check_relation(ccs, z1)
    /\ z2[1] = 1 /\ ccs_check_relation(ccs, z2)
    /\ z2[2] = 2

\* C4: after one coordinate of the witness vector returned by to_lcccs or
\* to_cccs is overwritten with a different value (r_w and the instance left
\* alone), check_relation fails at the commitment comparison: it never
\* returns Ok and never gets as far as the relation check.
C4_TamperDetected ==
    /\ tampered = "w1"
       => /\ LCCCS_check_relation(lcccs, pedersen_params, w1) = "PanicCommitment"
          /\ last.on = "lcccs"
             => last.res = "PanicCommitment" /\ pc = "aborted"
    /\ tampered = "w2"
       => /\ CCCS_check_relation(cccs, pedersen_params, w2) = "PanicCommitment"
          /\ last.on = "cccs"
             => last.res = "PanicCommitment" /\ pc = "aborted"

C4_Witness ==
    /\ tampered = "w2"
    /\ last = [on |-> "cccs", res |-> "PanicCommitment"]
    /\ pc = "aborted"
    /\ ~ ccs_check_relation(ccs, FullC(cccs, w2))

\* C5: CCCS::check_relation returns Ok exactly when the commitment matches
\* and q(z) is zero on the whole hypercube, returns Err(NotSatisfied) exactly
\* when the commitment matches and q(z) is nonzero somewhere, and aborts on a
\* commitment mismatch whatever q(z) is; LCCCS::check_relation returns Ok or
\* aborts (commitment mismatch first, then v' # v) and never returns Err.
C5_ErrorOutcomes ==
    /\ last.on = "cccs"
       => LET zero == \A y \in BooleanHypercube(ccs.s) :
                          compute_q(ccs, <<1>> \o cccs.x \o w2.w, y) = 0
          IN  /\ last.res \in {"Ok", "NotSatisfied", "PanicCommitment"}
              /\ last.res = "Ok" <=> (Binding(cccs, w2) /\ zero)
              /\ last.res = "NotSatisfied" <=> (Binding(cccs, w2) /\ ~ zero)
              /\ last.res = "PanicCommitment" <=> ~ Binding(cccs, w2)
              /\ pc = "aborted" <=> last.res = "PanicCommitment"
    /\ last.on = "lcccs"
       => LET same == compute_all_sum_Mz_evals(ccs, FullL(lcccs, w1), lcccs.r_x)
                          = lcccs.v
          IN  /\ last.res \in {"Ok", "PanicCommitment", "PanicV"}
              /\ last.res = "PanicCommitment" <=> ~ Binding(lcccs, w1)
              /\ last.res = "PanicV" <=> (Binding(lcccs, w1) /\ ~ same)
              /\ pc = "aborted" <=> last.res # "Ok"

C5_Witness ==
    /\ last = [on |-> "cccs", res |-> "NotSatisfied"]
    /\ pc = "running"
    /\ tampered = "none"

\* C7 as stated: LCCCS::check_relation accepts exactly when the commitment
\* matches and the evaluations of z = [1] ++ x ++ w at r_x equal v.
C7_ConstantOne ==
    /\ last.on = "lcccs"
       => (last.res = "Ok" <=>
              /\ Binding(lcccs, w1)
              /\ compute_all_sum_Mz_evals(ccs, <<1>> \o lcccs.x \o w1.w, lcccs.r_x)
                    = lcccs.v)
    /\ last.on = "folded"
       => (last.res = "Ok" <=>
              /\ Binding(folded, w_folded)
              /\ compute_all_sum_Mz_evals(ccs, <<1>> \o folded.x \o w_folded.w,
                                          folded.r_x) = folded.v)

\* C7 amended: LCCCS::check_relation reconstructs z = [u] ++ x ++ w, with the
\* instance's accumulation scalar u as first entry (1 only for an instance
\* that to_lcccs returned), recomputes v' from that z at the stored r_x, and
\* accepts exactly when the commitment matches and v' = v; this holds for
\* fresh and for folded instances.
C7_AccumulatedU ==
    /\ last.on = "lcccs"
       => (last.res = "Ok" <=>
              /\ Binding(lcccs, w1)
              /\ compute_all_sum_Mz_evals(ccs, <<lcccs.u>> \o lcccs.x \o w1.w,
                                          lcccs.r_x) = lcccs.v)
    /\ last.on = "folded"
       => (last.res = "Ok" <=>
              /\ Binding(folded, w_folded)
              /\ compute_all_sum_Mz_evals(ccs, <<folded.u>> \o folded.x \o w_folded.w,
                                          folded.r_x) = folded.v)

C7_Witness ==
    /\ last = [on |-> "folded", res |-> "Ok"]
    /\ folded.u # 1
    /\ compute_all_sum_Mz_evals(ccs, <<1>> \o folded.x \o w_folded.w, folded.r_x)
          # folded.v

C9_FoldedNeverOne ==
    /\ folded # None => folded.u # 1
    /\ (lcccs # None /\ folds > 0) => lcccs.u # 1

\* C9 amended: an LCCCS returned by to_lcccs has u = 1, and an LCCCS produced
\* by folds has u = 1 + rho_1 + ... + rho_k in the field; that u is 1 again
\* whenever the challenges sum to zero (a fold with rho = 0, or rho = 1 then
\* rho = p - 1), so u = 1 does not single out unfolded instances.
C9_RunningSum ==
    /\ lcccs # None =>
          /\ lcccs.u = (1 + rhoSum) % P
          /\ folds = 0 => lcccs.u = 1
    /\ folded # None => folded.u = (1 + rhoSum + pre.rho) % P

C9_Witness ==
    /\ folded # None /\ folds = 1
    /\ rhoSum # 0 /\ pre.rho # 0
    /\ folded.u = 1

====
